---------------------------- MODULE Spec2Model ----------------------------
(***************************************************************************)
(* Pleco: a crawler of hyperdrives.  Two variants are modelled:            *)
(*   - the local (Beaker webterm) variant, src/index.js;                   *)
(*   - the daemon variant, src/unnamed/part_000.                           *)
(* Strings are sequences of one-character strings, so that the regular     *)
(* expressions and slices of the source are computed character by          *)
(* character.                                                              *)
(***************************************************************************)
EXTENDS Naturals, Integers, Sequences, FiniteSets, TLC

VARIABLES
    variant,      \* "local" (index.js) or "daemon" (part_000)
    order,        \* end of #queue the iterator takes from; the code: "lifo"
    optMount,     \* options.mount                       (index.js:27)
    indexMounts,  \* mount keys of the working directory (index.js:12)
    cwd,          \* this.env.resolve(".")               (index.js:10)
    argv,         \* the seed URIs of argv._ that exhaustInput has not
                  \* reached yet                         (part_000:59)
    queue,        \* #queue (index.js:66) / queue (part_000:34)
    crawlSet,     \* #crawlSet (index.js:65) / crawled (part_000:33)
    pc,           \* position of the running routine
    key,          \* the key being crawled
    cur,          \* the drive obtained for key, as the accessor answers
    entries,      \* result of readdir
    targets,      \* scrapable entries
    ti,           \* position in targets
    si,           \* position of filterMounts in entries
    mounts,       \* result array of filterMounts
    mounted,      \* counter of successful mounts         (index.js:18)
    args,         \* uriList of the latest add / addQueue call
    count,        \* value returned by the latest add / addQueue call
    found,        \* history: keys whose addresses stand in the texts read
                  \* and fetched, and keys of the mounts stat reported
    failed        \* history: keys whose drive acquisition or listing failed

vars == <<variant, order, optMount, indexMounts, cwd, argv, queue,
          crawlSet, pc, key, cur, entries, targets, ti, si, mounts, mounted,
          args, count, found, failed>>

---------------------------------------------------------------------------
(* Bounds of the model *)

\* number of distinct drive keys in the universe
NumKeys == 3
\* largest number of seed URIs on the daemon's command line
MaxSeeds == 2
\* largest number of directories above a file in the paths given to
\* filterScrapable on its own
MaxDepth == 2
\* largest number of URIs in one add call made on the queue on its own
MaxArgs == 2

(* Program constant: length of a hypercore key, {64} in the regular
   expressions *)
KeyLen == 64

---------------------------------------------------------------------------
(* Strings *)

\* the null returned by extractKey: no key is the empty string
Null == <<>>

HexChars == {"0", "1", "2", "3", "4", "5", "6", "7", "8", "9",
             "a", "b", "c", "d", "e", "f"}

LineTerminators == {"\n", "\r"}

Min(a, b) == IF a < b THEN a ELSE b

\* String.prototype.slice(from, to) for 0 <= from <= to
Slice(s, from, to) == SubSeq(s, from + 1, Min(to, Len(s)))

\* s has the literal lit at (1-based) position i
HasAt(s, i, lit) ==
    /\ i >= 1
    /\ i + Len(lit) - 1 <= Len(s)
    /\ \A j \in 1..Len(lit) : s[i + j - 1] = lit[j]

StartsWith(s, lit) == HasAt(s, 1, lit)

EndsWith(s, lit) == HasAt(s, Len(s) - Len(lit) + 1, lit)

\* [0-9a-f]{64} at position i
HexKeyAt(s, i) ==
    /\ i >= 1
    /\ i + KeyLen - 1 <= Len(s)
    /\ \A j \in 0..(KeyLen - 1) : s[i + j] \in HexChars

SeqToSet(s) == {s[i] : i \in 1..Len(s)}

RECURSIVE Join(_, _)
\* the sequences of ss concatenated, sep between them
Join(ss, sep) ==
    IF Len(ss) = 0 THEN <<>>
    ELSE IF Len(ss) = 1 THEN ss[1]
    ELSE ss[1] \o sep \o Join(Tail(ss), sep)

HyperScheme == <<"h", "y", "p", "e", "r", ":">>
HyperMarker == <<"h", "y", "p", "e", "r", ":", "/", "/">>
NodeModules == <<"n", "o", "d", "e", "_", "m", "o", "d", "u", "l", "e", "s">>
Git == <<"g", "i", "t">>
DotGit == <<".", "g", "i", "t">>

---------------------------------------------------------------------------
(* Pure functions of src/index.js *)

\* /^hyper:/ then slice(8, 72), else slice(0, 64); /^[0-9a-f]{64}$/
extractKey(uri) ==
    LET k == IF StartsWith(uri, HyperScheme)
             THEN Slice(uri, 8, 72)
             ELSE Slice(uri, 0, 64)
    IN  IF Len(k) = KeyLen /\ HexKeyAt(k, 1) THEN k ELSE Null

\* /hyper:\/\/[0-9a-f]{64}/ at position i
AddressAt(text, i) ==
    HasAt(text, i, HyperMarker) /\ HexKeyAt(text, i + Len(HyperMarker))

\* text.match(/hyper:\/\/[0-9a-f]{64}/) without the g flag: the first match
MatchFirst(text) ==
    LET n == Len(HyperMarker) + KeyLen
        at == {i \in 1..Len(text) : AddressAt(text, i)}
    IN  IF at = {} THEN <<>>
        ELSE LET i == CHOOSE p \in at : \A j \in at : p <= j IN
             <<SubSeq(text, i, i + n - 1)>>

\* text.match(/hyper:\/\/[0-9a-f]{64}/g): each search starts where the
\* previous match ended and finds the leftmost match from there on
MatchAll(text) ==
    CHOOSE r \in
        { LET n == Len(HyperMarker) + KeyLen
              from[lastIndex \in 1..(Len(text) + 1)] ==
                  IF \A p \in at : p < lastIndex THEN <<>>
                  ELSE LET i == CHOOSE p \in at :
                                    /\ p >= lastIndex
                                    /\ \A q \in at : q >= lastIndex => p <= q
                       IN  <<SubSeq(text, i, i + n - 1)>>
                           \o from[Min(i + n, Len(text) + 1)]
          IN  from[1] :
            at \in {{p \in 1..Len(text) : AddressAt(text, p)}} } : TRUE

\* text.match(...) || []
scrapeHyperAddresses(text) == MatchAll(text)

\* entry.match(/(^|\/)(node_modules|.git)/): the unescaped dot matches any
\* character but a line terminator
ExcludedMatch(entry) ==
    \E i \in 1..Len(entry) :
        /\ i = 1 \/ entry[i - 1] = "/"
        /\ \/ HasAt(entry, i, NodeModules)
           \/ entry[i] \notin LineTerminators /\ HasAt(entry, i + 1, Git)

\* the alternatives of html?|md|xml|js(on)?|css
ScrapableExts ==
    { <<"h", "t", "m">>, <<"h", "t", "m", "l">>, <<"m", "d">>,
      <<"x", "m", "l">>, <<"j", "s">>, <<"j", "s", "o", "n">>,
      <<"c", "s", "s">> }

\* entry.match(/\.(html?|md|xml|js(on)?|css)$/)
ExtMatch(entry) == \E e \in ScrapableExts : EndsWith(entry, <<".">> \o e)

filterScrapableNoExclude(ents) == SelectSeq(ents, ExtMatch)

filterScrapable(ents) ==
    SelectSeq(SelectSeq(ents, LAMBDA e : ~ExcludedMatch(e)), ExtMatch)

---------------------------------------------------------------------------
(* Pure functions of the daemon variant, src/unnamed/part_000 *)

\* uri.match(/^https?:/)
HTTP_SCHEME(uri) ==
    \/ StartsWith(uri, <<"h", "t", "t", "p", ":">>)
    \/ StartsWith(uri, <<"h", "t", "t", "p", "s", ":">>)

\* uri.match(/^hyper:/)
HYPER_SCHEME(uri) == StartsWith(uri, HyperScheme)

\* key.match(/^[0-9a-f]{64}$/)
ED25519_KEY(k) == Len(k) = KeyLen /\ HexKeyAt(k, 1)

\* the alternatives of html?|md|json|xml|js|css
DaemonExts ==
    { <<"h", "t", "m">>, <<"h", "t", "m", "l">>, <<"m", "d">>,
      <<"j", "s", "o", "n">>, <<"x", "m", "l">>, <<"j", "s">>,
      <<"c", "s", "s">> }

\* entry.match(/\.(html?|md|json|xml|js|css)$/)
SCRAPABLE_EXTS(entry) == \E e \in DaemonExts : EndsWith(entry, <<".">> \o e)

daemonExtractKey(uri) ==
    LET k == IF HYPER_SCHEME(uri)
             THEN Slice(uri, 8, 72)
             ELSE Slice(uri, 0, 64)
    IN  IF ED25519_KEY(k) THEN k ELSE Null

\* text.match(HYPER_URI_SCRAPER) || []
scrapeURIs(text) == MatchAll(text)

---------------------------------------------------------------------------
(* The frontier: CrawlQueue of index.js, queue and crawled of part_000 *)

\* add without the test of #queue
addNoPendingCheck(q, cs, uriList) ==
    LET after[i \in 0..Len(uriList)] ==
            IF i = 0 THEN [queue |-> q, count |-> 0]
            ELSE CHOOSE r \in
                     { IF k = Null \/ k \in cs
                       THEN b
                       ELSE [queue |-> Append(b.queue, k),
                             count |-> b.count + 1] :
                         b \in {after[i - 1]},
                         k \in {extractKey(uriList[i])} } : TRUE
    IN  after[Len(uriList)]

\* add without the test of #crawlSet
addNoVisitedCheck(q, cs, uriList) ==
    LET after[i \in 0..Len(uriList)] ==
            IF i = 0 THEN [queue |-> q, count |-> 0]
            ELSE CHOOSE r \in
                     { IF k = Null \/ k \in SeqToSet(b.queue)
                       THEN b
                       ELSE [queue |-> Append(b.queue, k),
                             count |-> b.count + 1] :
                         b \in {after[i - 1]},
                         k \in {extractKey(uriList[i])} } : TRUE
    IN  after[Len(uriList)]

\* add leaving its loop, instead of going on, at a key it does not queue
addStopAtDuplicate(q, cs, uriList) ==
    LET after[i \in 0..Len(uriList)] ==
            IF i = 0 THEN [queue |-> q, count |-> 0, stop |-> FALSE]
            ELSE CHOOSE r \in
                     { IF b.stop \/ k = Null \/ k \in SeqToSet(b.queue)
                          \/ k \in cs
                       THEN [b EXCEPT !.stop = TRUE]
                       ELSE [b EXCEPT !.queue = Append(b.queue, k),
                                      !.count = b.count + 1] :
                         b \in {after[i - 1]},
                         k \in {extractKey(uriList[i])} } : TRUE
    IN  [queue |-> after[Len(uriList)].queue,
         count |-> after[Len(uriList)].count]

(* CrawlQueue.add(...uriList) on #queue = q and #crawlSet = cs: the new
   #queue and the returned count.  after[i] is the state of the loop after
   its i-th iteration; b is the state before it and k the key extracted. *)
add(q, cs, uriList) ==
    LET after[i \in 0..Len(uriList)] ==
            IF i = 0 THEN [queue |-> q, count |-> 0]
            ELSE CHOOSE r \in
                     { IF k = Null \/ k \in SeqToSet(b.queue) \/ k \in cs
                       THEN b
                       ELSE [queue |-> Append(b.queue, k),
                             count |-> b.count + 1] :
                         b \in {after[i - 1]},
                         k \in {extractKey(uriList[i])} } : TRUE
    IN  after[Len(uriList)]

\* addQueue(...uriList) on queue = q and crawled = cs, as add above
addQueue(q, cs, uriList) ==
    LET after[i \in 0..Len(uriList)] ==
            IF i = 0 THEN [queue |-> q, count |-> 0]
            ELSE CHOOSE r \in
                     { IF k = Null \/ k \in SeqToSet(b.queue) \/ k \in cs
                       THEN b
                       ELSE [queue |-> Append(b.queue, k),
                             count |-> b.count + 1] :
                         b \in {after[i - 1]},
                         k \in {daemonExtractKey(uriList[i])} } : TRUE
    IN  after[Len(uriList)]

\* pop taking the first element, as shift() would
popFirst(q, ord) == [key |-> Head(q), rest |-> Tail(q)]

\* this.#queue.pop() / queue.pop(): the key taken and the rest.  The code
\* takes the last element; ord = "fifo" is the other end, examined only by
\* the specification SpecOrder.
pop(q, ord) ==
    IF ord = "lifo"
    THEN [key |-> q[Len(q)], rest |-> SubSeq(q, 1, Len(q) - 1)]
    ELSE [key |-> Head(q), rest |-> Tail(q)]

---------------------------------------------------------------------------
(* The environment: keys, texts and the answers of the drive accessor *)

KeyChars == <<"a", "b", "c", "d", "e", "f">>

\* the i-th key of the universe: its character, 64 times
K(i) == [j \in 1..KeyLen |-> KeyChars[i]]

Keys == {K(i) : i \in 1..NumKeys}

KeyIndex(k) == CHOOSE i \in 1..NumKeys : K(i) = k

\* the address of key k as it is written in a text
Uri(k) == HyperMarker \o k

\* the keys of R in the order of their indices
KeySeq(R) == SelectSeq([i \in 1..NumKeys |-> K(i)], LAMBDA k : k \in R)

\* a text holding the addresses of the keys of R, the first one twice, and
\* a truncated address
TextOf(R) ==
    LET ks == KeySeq(R)
    IN  <<"s", "e", "e", " ">>
        \o Join([i \in 1..Len(ks) |-> Uri(ks[i])], <<" ">>)
        \o (IF ks = <<>> THEN <<>> ELSE <<" ">> \o Uri(ks[1]))
        \o <<" ", "j", "u", "n", "k", " ", "h", "y", "p", "e", "r", ":",
             "/", "/", "s", "h", "o", "r", "t">>

AHtml == <<"a", ".", "h", "t", "m", "l">>
BBin == <<"b", ".", "b", "i", "n">>
NmCJs == <<"n", "o", "d", "e", "_", "m", "o", "d", "u", "l", "e", "s",
           "/", "c", ".", "j", "s">>
XJson == <<"x", ".", "j", "s", "o", "n">>
DMd == <<"d", ".", "m", "d">>
Broken == <<"b", "r", "o", "k", "e", "n">>
NmDep == <<"n", "o", "d", "e", "_", "m", "o", "d", "u", "l", "e", "s",
           "/", "d", "e", "p">>
PkgBin == <<"p", "k", "g", ".", "b", "i", "n">>

\* the path at which a drive of kind "mixed" mounts the i-th key.  The
\* first key of the drive stands in d.md, so the mounts begin at the second
\* key of the universe.
MountPath(i) ==
    IF i = 2 THEN NmDep
    ELSE IF i = 3 THEN PkgBin
    ELSE <<"m", KeyChars[i]>>

NoDrive == [kind |-> "none", R |-> {}]

(* A drive as the accessor presents it during one crawl.
   kind "listFail": readdir throws.
   kind "files": a.html holds the addresses of R; b.bin and
     node_modules/c.js hold the addresses of the other keys; nothing is
     mounted.
   kind "mixed": x.json cannot be read; d.md holds the address of the first
     key of R; stat of "broken" throws; every other key of R is mounted. *)
Drives ==
    {[kind |-> "listFail", R |-> {}]}
    \cup {[kind |-> "files", R |-> R] : R \in SUBSET Keys}
    \cup {[kind |-> "mixed", R |-> {k1, k2}] : k1, k2 \in Keys}

FileRefs(d) ==
    IF d.kind = "files" THEN d.R
    ELSE IF d.R = {} THEN {} ELSE {KeySeq(d.R)[1]}

MountRefs(d) == IF d.kind = "mixed" THEN d.R \ FileRefs(d) ELSE {}

\* drive.readdir("/", { recursive: true }) on a drive that lists
readdir(d) ==
    IF d.kind = "files" THEN <<AHtml, BBin, NmCJs>>
    ELSE LET ms == KeySeq(MountRefs(d))
         IN  <<XJson, DMd, Broken>>
             \o [i \in 1..Len(ms) |-> MountPath(KeyIndex(ms[i]))]

\* the keys whose addresses the file at path holds
refs(d, path) ==
    IF d.kind = "files"
    THEN IF path = AHtml THEN d.R ELSE Keys \ d.R
    ELSE IF path = DMd THEN FileRefs(d) ELSE {}

\* drive.readFile(path): ok is FALSE when it throws
readFile(d, path) ==
    IF d.kind = "files" \/ path = DMd
    THEN [ok |-> TRUE, text |-> TextOf(refs(d, path))]
    ELSE [ok |-> FALSE, text |-> <<>>]

\* drive.stat("/" + path): ok is FALSE when it throws, mount is stat.mount.key
\* or Null
stat(d, path) ==
    IF d.kind = "mixed" /\ path = Broken THEN [ok |-> FALSE, mount |-> Null]
    ELSE IF \E k \in MountRefs(d) : MountPath(KeyIndex(k)) = path
         THEN [ok |-> TRUE,
               mount |-> CHOOSE k \in MountRefs(d) :
                             MountPath(KeyIndex(k)) = path]
         ELSE [ok |-> TRUE, mount |-> Null]

\* the working directories: a drive root and a location without a key
Cwds ==
    { Uri(K(1)) \o <<"/">>,
      <<"h", "y", "p", "e", "r", ":", "/", "/", "s", "i", "t", "e", "/">> }

\* the mounts found in the working directory before the loop
IndexMountChoices == { <<>>, <<K(1)>> }

HttpsSeed == <<"h", "t", "t", "p", "s", ":", "/", "/", "h", "/">>

\* what may stand on the daemon's command line
SeedURIs == { Uri(K(1)), K(NumKeys), HttpsSeed }

\* argv._ when main runs: it is not empty (part_000:24 exits otherwise)
SeedLists ==
    UNION {[1..n -> SeedURIs] : n \in 1..MaxSeeds}

---------------------------------------------------------------------------
(* Initial states *)

\* the queue is new and nothing has run
Idle ==
    /\ queue = <<>>
    /\ crawlSet = {}
    /\ key = Null
    /\ cur = NoDrive
    /\ targets = <<>>
    /\ ti = 1
    /\ si = 1
    /\ mounts = <<>>
    /\ mounted = 0
    /\ args = <<>>
    /\ count = 0
    /\ found = {}
    /\ failed = {}

\* index.js after line 18: the queue is new, the options, the working
\* directory and its mounts are given
InitLocal ==
    /\ variant = "local"
    /\ optMount \in BOOLEAN
    /\ indexMounts \in IndexMountChoices
    /\ cwd \in Cwds
    /\ argv = <<>>
    /\ pc = "add_cwd"
    /\ entries = <<>>
    /\ Idle

\* part_000 when main starts: queue and crawled are empty
InitDaemon ==
    /\ variant = "daemon"
    /\ optMount = FALSE
    /\ indexMounts = <<>>
    /\ cwd = <<>>
    /\ argv \in SeedLists
    /\ pc = "input"
    /\ entries = <<>>
    /\ Idle

Init == order = "lifo" /\ (InitLocal \/ InitDaemon)

\* the locals of one loop iteration, dropped at its end
EndIteration ==
    /\ cur' = NoDrive
    /\ entries' = <<>>
    /\ targets' = <<>>
    /\ ti' = 1
    /\ si' = 1
    /\ mounts' = <<>>

config == <<variant, order, optMount, indexMounts>>

locals == <<cur, entries, targets, ti, si, mounts>>

---------------------------------------------------------------------------
(* The local variant: pleco of src/index.js *)

\* queue.add(cwd)
QueueAddCwd ==
    /\ pc = "add_cwd"
    /\ queue' = add(queue, crawlSet, <<cwd>>).queue
    /\ pc' = "loop"
    /\ UNCHANGED <<config, cwd, argv, crawlSet, key, locals, mounted, args,
                   count, found, failed>>

\* IterNext without this.#crawlSet.add(key)
IterNextNoVisit ==
    /\ variant = "local"
    /\ pc = "loop"
    /\ IF Len(queue) > 0
       THEN LET p == pop(queue, order)
            IN  /\ queue' = p.rest
                /\ key' = p.key
                /\ pc' = IF optMount /\ p.key \notin SeqToSet(indexMounts)
                         THEN "mount"
                         ELSE "drive"
       ELSE /\ pc' = "report"
            /\ UNCHANGED <<queue, key>>
    /\ UNCHANGED <<config, cwd, argv, crawlSet, locals, mounted, args, count,
                   found, failed>>

\* one step of the queue iterator and the head of the loop body, up to the
\* test of options.mount
IterNext ==
    /\ variant = "local"
    /\ pc = "loop"
    /\ IF Len(queue) > 0
       THEN LET p == pop(queue, order)
            IN  /\ queue' = p.rest
                /\ key' = p.key
                /\ crawlSet' = crawlSet \cup {p.key}
                /\ pc' = IF optMount /\ p.key \notin SeqToSet(indexMounts)
                         THEN "mount"
                         ELSE "drive"
       ELSE /\ pc' = "report"
            /\ UNCHANGED <<queue, key, crawlSet>>
    /\ UNCHANGED <<config, cwd, argv, locals, mounted, args, count, found,
                   failed>>

\* MountKey with the error of mount ending the iteration
MountKeyBlocking ==
    /\ pc = "mount"
    /\ \/ /\ mounted' = mounted + 1
          /\ pc' = "drive"
       \/ /\ mounted' = mounted
          /\ pc' = "loop"
    /\ UNCHANGED <<config, cwd, argv, queue, crawlSet, key, locals, args,
                   count, found, failed>>

\* indexDrive.mount(key, key), which may throw
MountKey ==
    /\ pc = "mount"
    /\ \E ok \in BOOLEAN :
           mounted' = IF ok THEN mounted + 1 ELSE mounted
    /\ pc' = "drive"
    /\ UNCHANGED <<config, cwd, argv, queue, crawlSet, key, locals, args,
                   count, found, failed>>

\* DriveGet with the error of drive(key) caught outside the loop
DriveGetUncaught ==
    /\ pc = "drive"
    /\ \/ /\ failed' = failed \cup {key}
          /\ pc' = "report"
          /\ UNCHANGED cur
       \/ /\ \E d \in Drives : cur' = d
          /\ pc' = "readdir"
          /\ UNCHANGED failed
    /\ UNCHANGED <<config, cwd, argv, queue, crawlSet, key, entries, targets,
                   ti, si, mounts, mounted, args, count, found>>

\* beaker.hyperdrive.drive(key), which may throw
DriveGet ==
    /\ pc = "drive"
    /\ \/ /\ failed' = failed \cup {key}
          /\ pc' = "loop"
          /\ UNCHANGED cur
       \/ /\ \E d \in Drives : cur' = d
          /\ pc' = "readdir"
          /\ UNCHANGED failed
    /\ UNCHANGED <<config, cwd, argv, queue, crawlSet, key, entries, targets,
                   ti, si, mounts, mounted, args, count, found>>

\* drive.readdir("/", { recursive: true }), which may throw, and
\* filterScrapable(entries)
Readdir ==
    /\ pc = "readdir"
    /\ IF cur.kind = "listFail"
       THEN /\ failed' = failed \cup {key}
            /\ pc' = "loop"
            /\ EndIteration
       ELSE /\ entries' = readdir(cur)
            /\ targets' = filterScrapable(readdir(cur))
            /\ ti' = 1
            /\ pc' = "scrape"
            /\ UNCHANGED <<cur, si, mounts, failed>>
    /\ UNCHANGED <<config, cwd, argv, queue, crawlSet, key, mounted, args,
                   count, found>>

\* ReadFile with the error of readFile caught by the catch of the crawl
ReadFileAbort ==
    /\ pc = "scrape"
    /\ ti <= Len(targets)
    /\ \E f \in {readFile(cur, targets[ti])} :
           IF f.ok
           THEN \E uriList \in {scrapeHyperAddresses(f.text)} :
                    /\ queue' = add(queue, crawlSet, uriList).queue
                    /\ found' = found \cup refs(cur, targets[ti])
                    /\ ti' = ti + 1
                    /\ UNCHANGED <<pc, cur, entries, targets, si, mounts>>
           ELSE /\ pc' = "loop"
                /\ EndIteration
                /\ UNCHANGED <<queue, found>>
    /\ UNCHANGED <<config, cwd, argv, crawlSet, key, mounted, args, count,
                   failed>>

\* one iteration of the loop over targets: readFile, scrapeHyperAddresses,
\* queue.add
ReadFile ==
    /\ pc = "scrape"
    /\ ti <= Len(targets)
    /\ \E f \in {readFile(cur, targets[ti])} :
           IF f.ok
           THEN \E uriList \in {scrapeHyperAddresses(f.text)} :
                    /\ queue' = add(queue, crawlSet, uriList).queue
                    /\ found' = found \cup refs(cur, targets[ti])
           ELSE UNCHANGED <<queue, found>>
    /\ ti' = ti + 1
    /\ UNCHANGED <<config, cwd, argv, crawlSet, pc, key, cur, entries,
                   targets, si, mounts, mounted, args, count, failed>>

\* FilterMountsCall made without waiting for the reads of the targets
FilterMountsCallEarly ==
    /\ pc = "scrape"
    /\ pc' = "stat"
    /\ si' = 1
    /\ mounts' = <<>>
    /\ UNCHANGED <<config, cwd, argv, queue, crawlSet, key, cur, entries,
                   targets, ti, mounted, args, count, found, failed>>

\* the loop over targets is over: filterMounts(drive, entries) is called
FilterMountsCall ==
    /\ pc = "scrape"
    /\ ti > Len(targets)
    /\ pc' = "stat"
    /\ si' = 1
    /\ mounts' = <<>>
    /\ UNCHANGED <<config, cwd, argv, queue, crawlSet, key, cur, entries,
                   targets, ti, mounted, args, count, found, failed>>

\* StatEntry with the error of stat caught by the catch of the crawl
StatEntryAbort ==
    /\ pc = "stat"
    /\ si <= Len(entries)
    /\ LET st == stat(cur, entries[si])
       IN  IF st.ok
           THEN /\ IF st.mount # Null
                   THEN /\ mounts' = Append(mounts, st.mount)
                        /\ found' = found \cup {st.mount}
                   ELSE UNCHANGED <<mounts, found>>
                /\ si' = si + 1
                /\ UNCHANGED <<pc, cur, entries, targets, ti>>
           ELSE /\ pc' = "loop"
                /\ EndIteration
                /\ UNCHANGED found
    /\ UNCHANGED <<config, cwd, argv, queue, crawlSet, key, mounted, args,
                   count, failed>>

\* one iteration of the loop of filterMounts: drive.stat, mounts.push
StatEntry ==
    /\ pc = "stat"
    /\ si <= Len(entries)
    /\ LET st == stat(cur, entries[si])
       IN  IF st.ok /\ st.mount # Null
           THEN /\ mounts' = Append(mounts, st.mount)
                /\ found' = found \cup {st.mount}
           ELSE UNCHANGED <<mounts, found>>
    /\ si' = si + 1
    /\ UNCHANGED <<config, cwd, argv, queue, crawlSet, pc, key, cur, entries,
                   targets, ti, mounted, args, count, failed>>

\* filterMounts returns: queue.add(...mounts), end of the loop body
QueueMounts ==
    /\ pc = "stat"
    /\ si > Len(entries)
    /\ queue' = add(queue, crawlSet, mounts).queue
    /\ pc' = "loop"
    /\ EndIteration
    /\ UNCHANGED <<config, cwd, argv, crawlSet, key, mounted, args, count,
                   found, failed>>

\* the report after the loop
Report ==
    /\ variant = "local"
    /\ pc = "report"
    /\ pc' = "done"
    /\ UNCHANGED <<config, cwd, argv, queue, crawlSet, key, locals, mounted,
                   args, count, found, failed>>

---------------------------------------------------------------------------
(* The daemon variant: src/unnamed/part_000 *)

\* fetch(url), response.text(), scrapeURIs, addQueue; the fetch may throw,
\* and exhaustInput catches it
crawlHttp(url) ==
    \/ UNCHANGED <<queue, found>>
    \/ \E R \in SUBSET Keys :
           \E text \in {TextOf(R)} :
               \E uriList \in {scrapeURIs(text)} :
                   /\ queue' = addQueue(queue, crawlSet, uriList).queue
                   /\ found' = found \cup R

\* ExhaustInput giving every seed that is no HTTP(S) address to addQueue
ExhaustInputAnyKey ==
    /\ pc = "input"
    /\ argv # <<>>
    /\ LET uri == Head(argv)
       IN  IF HTTP_SCHEME(uri) THEN crawlHttp(uri)
           ELSE /\ queue' = addQueue(queue, crawlSet, <<uri>>).queue
                /\ UNCHANGED found
    /\ argv' = Tail(argv)
    /\ UNCHANGED <<config, cwd, crawlSet, pc, key, locals, mounted, args,
                   count, failed>>

\* ExhaustInput without the catch of part_000:60: a failed fetch rejects main,
\* whose handler ends the process
ExhaustInputUncaught ==
    /\ pc = "input"
    /\ argv # <<>>
    /\ LET uri == Head(argv)
       IN  IF HTTP_SCHEME(uri)
           THEN \/ /\ pc' = "done"
                   /\ UNCHANGED <<queue, found, argv>>
                \/ /\ \E R \in SUBSET Keys :
                          \E text \in {TextOf(R)} :
                              \E uriList \in {scrapeURIs(text)} :
                                  /\ queue' = addQueue(queue, crawlSet, uriList).queue
                                  /\ found' = found \cup R
                   /\ argv' = Tail(argv)
                   /\ UNCHANGED pc
           ELSE /\ IF HYPER_SCHEME(uri)
                   THEN /\ queue' = addQueue(queue, crawlSet, <<uri>>).queue
                        /\ UNCHANGED found
                   ELSE UNCHANGED <<queue, found>>
                /\ argv' = Tail(argv)
                /\ UNCHANGED pc
    /\ UNCHANGED <<config, cwd, crawlSet, key, locals, mounted, args,
                   count, failed>>

\* one iteration of the loop of exhaustInput
ExhaustInput ==
    /\ pc = "input"
    /\ argv # <<>>
    /\ LET uri == Head(argv)
       IN  IF HTTP_SCHEME(uri) THEN crawlHttp(uri)
           ELSE IF HYPER_SCHEME(uri)
                THEN /\ queue' = addQueue(queue, crawlSet, <<uri>>).queue
                     /\ UNCHANGED found
                ELSE UNCHANGED <<queue, found>>
    /\ argv' = Tail(argv)
    /\ UNCHANGED <<config, cwd, crawlSet, pc, key, locals, mounted, args,
                   count, failed>>

\* exhaustInput returns and main goes on to exhaustQueue
ExhaustInputEnd ==
    /\ pc = "input"
    /\ argv = <<>>
    /\ pc' = "loop"
    /\ UNCHANGED <<config, cwd, argv, queue, crawlSet, key, locals, mounted,
                   args, count, found, failed>>

\* the loop test of exhaustQueue, queue.pop() and the call of crawlHyper
exhaustQueue ==
    /\ variant = "daemon"
    /\ pc = "loop"
    /\ IF Len(queue) > 0
       THEN LET p == pop(queue, order)
            IN  /\ queue' = p.rest
                /\ key' = p.key
                /\ pc' = "get"
       ELSE /\ pc' = "report"
            /\ UNCHANGED <<queue, key>>
    /\ UNCHANGED <<config, cwd, argv, crawlSet, locals, mounted, args, count,
                   found, failed>>

\* crawlHyper: client.drive.get({ key }), which may throw
ClientDriveGet ==
    /\ pc = "get"
    /\ \/ /\ failed' = failed \cup {key}
          /\ pc' = "finally"
          /\ UNCHANGED cur
       \/ /\ \E d \in Drives : cur' = d
          /\ pc' = "list"
          /\ UNCHANGED failed
    /\ UNCHANGED <<config, cwd, argv, queue, crawlSet, key, entries, targets,
                   ti, si, mounts, mounted, args, count, found>>

\* crawlHyper: drive.readdir, which may throw, filtered by SCRAPABLE_EXTS
ClientReaddir ==
    /\ pc = "list"
    /\ IF cur.kind = "listFail"
       THEN /\ failed' = failed \cup {key}
            /\ pc' = "finally"
            /\ UNCHANGED <<entries, ti>>
       ELSE /\ entries' = SelectSeq(readdir(cur), SCRAPABLE_EXTS)
            /\ ti' = 1
            /\ pc' = "entries"
            /\ UNCHANGED failed
    /\ UNCHANGED <<config, cwd, argv, queue, crawlSet, key, cur, targets, si,
                   mounts, mounted, args, count, found>>

\* crawlHyper: one iteration of the loop over entries
ClientReadFile ==
    /\ pc = "entries"
    /\ ti <= Len(entries)
    /\ \E f \in {readFile(cur, entries[ti])} :
           IF f.ok
           THEN \E uriList \in {scrapeURIs(f.text)} :
                    /\ queue' = addQueue(queue, crawlSet, uriList).queue
                    /\ found' = found \cup refs(cur, entries[ti])
           ELSE UNCHANGED <<queue, found>>
    /\ ti' = ti + 1
    /\ UNCHANGED <<config, cwd, argv, crawlSet, pc, key, cur, entries,
                   targets, si, mounts, mounted, args, count, failed>>

\* crawlHyper: the finally block, crawled.add(key), reached from the end of
\* the loop over entries and from the catch block
crawlHyperFinally ==
    /\ \/ pc = "finally"
       \/ pc = "entries" /\ ti > Len(entries)
    /\ crawlSet' = crawlSet \cup {key}
    /\ pc' = "loop"
    /\ EndIteration
    /\ UNCHANGED <<config, cwd, argv, queue, key, mounted, args, count,
                   found, failed>>

\* main: the report after exhaustQueue
DaemonReport ==
    /\ variant = "daemon"
    /\ pc = "report"
    /\ pc' = "done"
    /\ UNCHANGED <<config, cwd, argv, queue, crawlSet, key, locals, mounted,
                   args, count, found, failed>>

---------------------------------------------------------------------------
(* Specifications *)

NextLocal ==
    \/ QueueAddCwd
    \/ IterNext
    \/ MountKey
    \/ DriveGet
    \/ Readdir
    \/ ReadFile
    \/ FilterMountsCall
    \/ StatEntry
    \/ QueueMounts
    \/ Report

NextDaemon ==
    \/ ExhaustInput
    \/ ExhaustInputEnd
    \/ exhaustQueue
    \/ ClientDriveGet
    \/ ClientReaddir
    \/ ClientReadFile
    \/ crawlHyperFinally
    \/ DaemonReport

Next == NextLocal \/ NextDaemon

Spec == Init /\ [][Next]_vars

\* the local variant with the iterator taking from either end of #queue
InitOrder == order \in {"lifo", "fifo"} /\ InitLocal

SpecOrder == InitOrder /\ [][NextLocal]_vars

\* every call of the accessor returns or throws, and the loops run on
FairSpec == Spec /\ WF_vars(Next)

---------------------------------------------------------------------------
(* The queue on its own: any sequence of add calls and iterator steps
   (index.js), of addQueue calls, pops and crawled.add (part_000) *)

NotAKey == <<"n", "o", "t", "-", "a", "-", "k", "e", "y">>

\* what a caller may pass to add: two addresses, the first key bare, a
\* non-key
ApiURIs == {Uri(K(1)), Uri(K(2)), K(1), NotAKey}

ArgLists == UNION {[1..n -> ApiURIs] : n \in 0..MaxArgs}

InitQueue ==
    /\ variant \in {"local", "daemon"}
    /\ order = "lifo"
    /\ optMount = FALSE
    /\ indexMounts = <<>>
    /\ cwd = <<>>
    /\ argv = <<>>
    /\ pc = "api"
    /\ entries = <<>>
    /\ Idle

\* queue.add(...uriList)
ApiAdd ==
    /\ pc = "api"
    /\ variant = "local"
    /\ \E uriList \in ArgLists :
           LET r == add(queue, crawlSet, uriList)
           IN  /\ queue' = r.queue
               /\ count' = r.count
               /\ args' = uriList
    /\ UNCHANGED <<config, cwd, argv, crawlSet, pc, key, locals, mounted,
                   found, failed>>

\* one step of the iterator of the queue
ApiIterNext ==
    /\ pc = "api"
    /\ variant = "local"
    /\ Len(queue) > 0
    /\ LET p == pop(queue, order)
       IN  /\ queue' = p.rest
           /\ key' = p.key
           /\ crawlSet' = crawlSet \cup {p.key}
    /\ UNCHANGED <<config, cwd, argv, pc, locals, mounted, args, count,
                   found, failed>>

\* addQueue(...uriList), from exhaustInput or within crawlHyper
ApiAddQueue ==
    /\ pc = "api"
    /\ variant = "daemon"
    /\ \E uriList \in ArgLists :
           LET r == addQueue(queue, crawlSet, uriList)
           IN  /\ queue' = r.queue
               /\ count' = r.count
               /\ args' = uriList
    /\ UNCHANGED <<config, cwd, argv, crawlSet, pc, key, locals, mounted,
                   found, failed>>

\* exhaustQueue: queue.pop() and the call of crawlHyper(key)
ApiPop ==
    /\ pc = "api"
    /\ variant = "daemon"
    /\ key = Null
    /\ Len(queue) > 0
    /\ LET p == pop(queue, order)
       IN  /\ queue' = p.rest
           /\ key' = p.key
    /\ UNCHANGED <<config, cwd, argv, crawlSet, pc, locals, mounted, args,
                   count, found, failed>>

\* crawlHyper(key) ends: crawled.add(key)
ApiFinally ==
    /\ pc = "api"
    /\ variant = "daemon"
    /\ key # Null
    /\ crawlSet' = crawlSet \cup {key}
    /\ key' = Null
    /\ UNCHANGED <<config, cwd, argv, queue, pc, locals, mounted, args,
                   count, found, failed>>

NextQueue == ApiAdd \/ ApiIterNext \/ ApiAddQueue \/ ApiPop \/ ApiFinally

SpecQueue == InitQueue /\ [][NextQueue]_vars

---------------------------------------------------------------------------
(* filterScrapable on its own *)

FilterDirs ==
    { NodeModules, DotGit,
      <<".", "g", "i", "t", "h", "u", "b">>,
      <<"n", "o", "d", "e", "_", "m", "o", "d", "u", "l", "e", "s", "2">>,
      <<"a", "g", "i", "t">>,
      <<"s", "r", "c">> }

FilterFiles ==
    { <<"b", ".", "j", "s">>, <<"r", ".", "m", "d">>,
      <<"i", ".", "h", "t", "m">>, <<"a", ".", "h", "t", "m", "l">>,
      <<"s", ".", "c", "s", "s">>, <<"p", ".", "j", "s", "o", "n">>,
      <<"f", ".", "x", "m", "l">>,
      <<"n", ".", "m", "a", "r", "k", "d", "o", "w", "n">>,
      <<"t", ".", "t", "x", "t">>, <<"g", "i", "t", ".", "j", "s">> }

\* a file below at most MaxDepth directories
FilterPaths ==
    { Join(ds \o <<f>>, <<"/">>) :
        ds \in UNION {[1..d -> FilterDirs] : d \in 0..MaxDepth},
        f \in FilterFiles }

\* the listings given to filterScrapable: a path alone, and between two
\* other entries
FilterInputs ==
    {<<p>> : p \in FilterPaths} \cup {<<BBin, p, AHtml>> : p \in FilterPaths}

InitFilter ==
    /\ variant = "local"
    /\ order = "lifo"
    /\ optMount = FALSE
    /\ indexMounts = <<>>
    /\ cwd = <<>>
    /\ argv = <<>>
    /\ pc = "filter"
    /\ entries \in FilterInputs
    /\ Idle

\* const targets = filterScrapable(entries)
FilterStep ==
    /\ pc = "filter"
    /\ targets' = filterScrapable(entries)
    /\ pc' = "filtered"
    /\ UNCHANGED <<config, cwd, argv, queue, crawlSet, key, cur, entries, ti,
                   si, mounts, mounted, args, count, found, failed>>

SpecFilter == InitFilter /\ [][FilterStep]_vars

---------------------------------------------------------------------------
(* extractKey on its own *)

UpperKey == [i \in 1..KeyLen |-> "A"]

\* what may stand before the 64 characters of a reference
ExtractPrefixes ==
    { <<>>, HyperMarker, HyperScheme,
      <<"h", "y", "p", "e", "r", ":", "x", "x">>,
      <<"h", "y", "p", "e", "r", ":", "/">>,
      <<"H", "y", "p", "e", "r", ":", "/", "/">>,
      <<"d", "a", "t", ":", "/", "/">> }

\* keys, an upper-case key, a key with one character that is no hex digit,
\* a key one character short, a word, nothing
ExtractBodies ==
    { K(1), K(2), UpperKey, [K(1) EXCEPT ![KeyLen] = "g"],
      SubSeq(K(1), 1, KeyLen - 1), NotAKey, <<>> }

ExtractSuffixes == { <<>>, <<"/", "a", ".", "m", "d">>, <<"a">> }

ExtractInputs ==
    { p \o b \o s : p \in ExtractPrefixes, b \in ExtractBodies,
                    s \in ExtractSuffixes }

InitExtract ==
    /\ variant \in {"local", "daemon"}
    /\ order = "lifo"
    /\ optMount = FALSE
    /\ indexMounts = <<>>
    /\ cwd = <<>>
    /\ argv \in {<<uri>> : uri \in ExtractInputs}
    /\ pc = "extract"
    /\ entries = <<>>
    /\ Idle

\* const key = extractKey(uri)
ExtractStep ==
    /\ pc = "extract"
    /\ key' = IF variant = "local" THEN extractKey(argv[1])
              ELSE daemonExtractKey(argv[1])
    /\ pc' = "extracted"
    /\ UNCHANGED <<config, cwd, argv, queue, crawlSet, locals, mounted, args,
                   count, found, failed>>

SpecExtract == InitExtract /\ [][ExtractStep]_vars

---------------------------------------------------------------------------
(* scrapeHyperAddresses and scrapeURIs on their own *)

MaxPieces == 3

\* "see hyper://" + aa..a + " and junk hyper://short"
Example ==
    <<"s", "e", "e", " ">> \o Uri(K(1))
    \o <<" ", "a", "n", "d", " ", "j", "u", "n", "k", " ", "h", "y", "p",
         "e", "r", ":", "/", "/", "s", "h", "o", "r", "t">>

\* the pieces of a text: addresses, the example, an address one hex digit
\* short, an upper-case address, hex digits, a bare key, a word
TextPieces ==
    { Uri(K(1)), Uri(K(2)), Example,
      HyperMarker \o SubSeq(K(1), 1, KeyLen - 1) \o <<"g">>,
      HyperMarker \o UpperKey,
      <<"a", "b">>,
      <<" ", "s", "e", "e", " ">> }

Texts ==
    { Join(ps, <<>>) : ps \in UNION {[1..n -> TextPieces] : n \in 0..MaxPieces} }

InitScrape ==
    /\ variant \in {"local", "daemon"}
    /\ order = "lifo"
    /\ optMount = FALSE
    /\ indexMounts = <<>>
    /\ cwd = <<>>
    /\ argv \in {<<text>> : text \in Texts}
    /\ pc = "text"
    /\ entries = <<>>
    /\ Idle

\* const uriList = scrapeHyperAddresses(text), const uriList = scrapeURIs(text)
ScrapeStep ==
    /\ pc = "text"
    /\ args' = IF variant = "local" THEN scrapeHyperAddresses(argv[1])
               ELSE scrapeURIs(argv[1])
    /\ pc' = "matched"
    /\ UNCHANGED <<config, cwd, argv, queue, crawlSet, key, locals, mounted,
                   count, found, failed>>

SpecScrape == InitScrape /\ [][ScrapeStep]_vars

---------------------------------------------------------------------------
(* Properties *)

NoDuplicates(q) == \A i, j \in 1..Len(q) : i # j => q[i] # q[j]

\* the steps that take a key from the queue
Dequeue ==
    /\ pc \in {"loop", "api"}
    /\ Len(queue') < Len(queue)

(* C1: in the CrawlQueue of index.js, after any sequence of add calls and
   iterator steps from the empty queue, the pending list holds no key twice
   and no pending key is in the crawled set. *)
C1_PendingDisjoint ==
    variant = "local" =>
        /\ NoDuplicates(queue)
        /\ SeqToSet(queue) \cap crawlSet = {}

\* an add call offered a crawled key and a pending key and queued neither
C1_Witness ==
    /\ variant = "local"
    /\ pc = "api"
    /\ crawlSet = {K(1)}
    /\ queue = <<K(2)>>
    /\ args = <<Uri(K(1)), Uri(K(2))>>
    /\ count = 0

(* C2: in both variants every key is dequeued at most once in a run: a key
   that is dequeued has not been crawled before. *)
C2_DequeuedOnce == [][Dequeue => key' \notin crawlSet]_vars

FilesDrive(R) == [kind |-> "files", R |-> R]

MixedDrive(R) == [kind |-> "mixed", R |-> R]

(* C3: in both variants the crawl ends, whatever the drives hold and
   whichever calls fail: the report is made with the queue empty and with
   every key found in what was read crawled, so that of two drives A and B
   that refer to each other both are crawled. *)
C3_Terminates == <>(pc = "done" /\ queue = <<>> /\ found \subseteq crawlSet)

\* A's drive referred to B, B's file that refers back to A has been read,
\* and A was not queued again
C3_Witness ==
    /\ pc = "scrape"
    /\ key = K(2)
    /\ cur = FilesDrive({K(1)})
    /\ variant = "local"
    /\ ti = 2
    /\ found = {K(1), K(2)}
    /\ crawlSet = {K(1), K(2)}
    /\ queue = <<>>

\* the key of the working directory, when it has one
SeedKeys == IF extractKey(cwd) = Null THEN {} ELSE {extractKey(cwd)}

(* C4: in index.js, whichever end of the queue the iterator takes from, every
   crawled key is the seed or a key found in a file read or a mount stat-ed
   in a crawled drive, and when the crawl is over the crawled keys are
   exactly these. *)
C4_CrawledIsReachable ==
    /\ crawlSet \subseteq SeedKeys \cup found
    /\ pc = "done" => crawlSet = SeedKeys \cup found

\* a first-in-first-out crawl is over with every key crawled, one of them a
\* drive that failed
C4_Witness ==
    /\ pc = "done"
    /\ order = "fifo"
    /\ crawlSet = Keys
    /\ failed # {}

\* a step in which the acquisition of the drive or its listing fails
AccessFails ==
    /\ pc \in {"drive", "readdir", "get", "list"}
    /\ failed' # failed

(* C5: in both variants, when the acquisition of the drive of a dequeued key
   or its listing fails, the key is in the crawled set when the loop resumes;
   nothing is queued from its dequeue to the resumption of the loop; it is
   not dequeued again; and the loop resumes, dequeues while keys are pending
   and ends with none pending. *)
C5_FailedKeyAbandoned ==
    /\ [](pc \in {"loop", "report", "done"} => failed \subseteq crawlSet)
    /\ [][AccessFails => /\ key' = key
                         /\ queue' = queue
                         /\ found' = found
                         /\ pc' \in {"loop", "finally"}]_vars
    /\ [][(pc \in {"mount", "drive", "readdir", "get", "list", "finally"}) =>
              /\ queue' = queue
              /\ pc' # "report"]_vars
    /\ [][Dequeue => key' \notin failed]_vars
    /\ [][pc = "loop" /\ queue # <<>> => Dequeue]_vars
    /\ [](pc = "done" => queue = <<>>)

\* the loop has resumed after the drive of the key failed, with a key pending
C5_Witness ==
    /\ pc = "loop"
    /\ key \in failed
    /\ key \in crawlSet
    /\ queue # <<>>

\* a step that ends the crawl of a drive whose x.json could not be read
C6_CrawlEnds ==
    /\ pc \in {"scrape", "stat", "entries"}
    /\ pc' = "loop"
    /\ cur.kind = "mixed"

(* C6: in both variants, when the read of one scrapable file of a listed
   drive fails, the scrapable file after it has been read when the crawl of
   the drive ends, and the keys it holds are pending or crawled; in index.js
   so are the keys of the mounts of the drive. *)
C6_ReadFailureIsLocal ==
    [][C6_CrawlEnds =>
          /\ FileRefs(cur) \subseteq found'
          /\ FileRefs(cur) \subseteq SeqToSet(queue') \cup crawlSet'
          /\ variant = "local" =>
                 MountRefs(cur) \subseteq SeqToSet(queue') \cup crawlSet']_vars

\* x.json of the seed's drive failed, d.md gave the second key and the mount
\* of the third is about to be queued
C6_Witness ==
    /\ variant = "local"
    /\ pc = "stat"
    /\ si > Len(entries)
    /\ key = K(1)
    /\ cur = MixedDrive({K(2), K(3)})
    /\ queue = <<K(2)>>
    /\ mounts = <<K(3)>>

\* the drive of the seed K1 is being crawled and is the drive of the example
C7_SeedDrive ==
    /\ variant = "local"
    /\ pc \in {"scrape", "stat"}
    /\ crawlSet = {K(1)}
    /\ cur = FilesDrive({K(2)})

(* C7: in index.js the file about to be read is an entry of the listing with
   an allowed extension and outside node_modules and .git; and while the
   seed's drive [a.html holding K2, b.bin, node_modules/c.js holding K3],
   without mounts, is crawled, b.bin and node_modules/c.js are not read and
   no key but K2 is queued. *)
C7_ReadsOnlyScrapable ==
    /\ (variant = "local" /\ pc = "scrape" /\ ti <= Len(targets)) =>
           /\ targets[ti] \in SeqToSet(entries)
           /\ ExtMatch(targets[ti])
           /\ ~ExcludedMatch(targets[ti])
    /\ C7_SeedDrive =>
           /\ (pc = "scrape" /\ ti <= Len(targets)) =>
                  targets[ti] \notin {BBin, NmCJs}
           /\ SeqToSet(queue) \subseteq {K(2)}
           /\ found \subseteq {K(2)}
           /\ pc = "stat" => queue = <<K(2)>>

\* the three entries of the seed's drive have been stat-ed and K2 alone is
\* pending
C7_Witness ==
    /\ variant = "local"
    /\ pc = "stat"
    /\ si > Len(entries)
    /\ crawlSet = {K(1)}
    /\ cur = FilesDrive({K(2)})
    /\ entries = <<AHtml, BBin, NmCJs>>
    /\ queue = <<K(2)>>

\* path has the segment name between two "/" or the ends of the path
HasSegment(path, name) ==
    \E i \in 1..Len(path) :
        /\ i = 1 \/ path[i - 1] = "/"
        /\ HasAt(path, i, name)
        /\ i + Len(name) > Len(path) \/ path[i + Len(name)] = "/"

UnderExcludedDirectory(path) ==
    HasSegment(path, NodeModules) \/ HasSegment(path, DotGit)

(* C8: filterScrapable of index.js keeps an entry exactly when its extension
   is allowed and no segment of its path is node_modules or .git. *)
C8_ExcludesEqualSegments ==
    pc = "filtered" =>
        \A i \in 1..Len(entries) :
            (entries[i] \in SeqToSet(targets))
                <=> (ExtMatch(entries[i])
                     /\ ~UnderExcludedDirectory(entries[i]))

(* C9: in the daemon variant crawlHyper reads no file under a node_modules
   or .git directory. *)
C9_DaemonBlacklist ==
    variant = "daemon" /\ pc = "entries" /\ ti <= Len(entries) =>
        ~UnderExcludedDirectory(entries[ti])

\* the keys that have been dequeued
Drained == crawlSet \cup (IF key = Null THEN {} ELSE {key})

\* the keys of uriList that are valid, not in q, not in visited and not
\* earlier in uriList, in their order
Appended(q, visited, uriList) ==
    LET ks == [i \in 1..Len(uriList) |-> extractKey(uriList[i])]
        New(i) == /\ ks[i] # Null
                  /\ ks[i] \notin SeqToSet(q)
                  /\ ks[i] \notin visited
                  /\ \A j \in 1..(i - 1) : ks[j] # ks[i]
        is == SelectSeq([i \in 1..Len(uriList) |-> i], New)
    IN  [n \in 1..Len(is) |-> ks[is[n]]]

\* a step of add or addQueue
AddCall == pc = "api" /\ key' = key /\ crawlSet' = crawlSet

(* C10: add and addQueue append exactly the keys of their arguments that are
   valid, not pending, not dequeued before and not earlier in the call, and
   return their number; so add(k) after k has been dequeued returns 0 and
   leaves the queue as it was. *)
C10_AddCountsAppended ==
    [][AddCall =>
          \A uriList \in {args'} :
              /\ queue' = queue \o Appended(queue, Drained, uriList)
              /\ count' = Len(Appended(queue, Drained, uriList))]_vars


\* q is the beginning of r
IsPrefix(q, r) == Len(q) <= Len(r) /\ SubSeq(r, 1, Len(q)) = q

(* C11: in both variants the keys are pending in the order of their
   appending, every other step than a dequeue leaving the pending keys in
   place and appending at the end, and a dequeue takes the last of them,
   the most recently appended, and leaves the others in place. *)
C11_LastInFirstOut ==
    /\ [][Dequeue => /\ key' = queue[Len(queue)]
                     /\ queue' = SubSeq(queue, 1, Len(queue) - 1)]_vars
    /\ [][~Dequeue => \A q \in {queue'} : IsPrefix(queue, q)]_vars

\* K2 was appended before K3, both were pending, and K3 has been dequeued
\* with K2 still pending
C11_Witness ==
    /\ pc \in {"drive", "get"}
    /\ key = K(3)
    /\ queue = <<K(2)>>
    /\ found = {K(2), K(3)}


\* the keys of the mounts that stat reports for the first n entries of the
\* listing of drive d, in the order of the entries
MountsAmong(d, n) ==
    LET es == readdir(d)
        Mount(i) == stat(d, es[i]).ok /\ stat(d, es[i]).mount # Null
        is == SelectSeq([i \in 1..n |-> i], Mount)
    IN  [j \in 1..Len(is) |-> stat(d, es[is[j]]).mount]

(* C12: in index.js filterMounts goes through every entry of the listing,
   scrapable or not; it collects the key of every entry whose stat succeeds
   and reports a mount, a stat that throws adding nothing and ending
   nothing; and when the crawl of the drive ends every key collected is
   pending or crawled, the key mounted under node_modules among them. *)
C12_MountsQueued ==
    /\ [](variant = "local" /\ pc = "stat" =>
              /\ entries = readdir(cur)
              /\ mounts = MountsAmong(cur, si - 1))
    /\ [][(pc = "stat" /\ pc' = "loop") =>
              /\ si > Len(readdir(cur))
              /\ MountRefs(cur) \subseteq SeqToSet(queue') \cup crawlSet'
              /\ cur = MixedDrive({K(1), K(2)}) =>
                     K(2) \in SeqToSet(queue') \cup crawlSet']_vars

\* the stat of "broken" threw, node_modules/dep was stat-ed after it and the
\* key mounted there is about to be queued
C12_Witness ==
    /\ variant = "local"
    /\ pc = "stat"
    /\ si > Len(entries)
    /\ entries = <<XJson, DMd, Broken, NmDep>>
    /\ mounts = <<K(2)>>
    /\ K(2) \notin SeqToSet(queue)


(* C13: in index.js mount(key, key) is attempted only in mount mode, for the
   key just dequeued, when that key is not among the mounts found in the
   working directory before the loop and has not been dequeued before;
   whether the mount succeeds or throws, the next step acquires the drive of
   the same key; the counter changes only there and by one; and it never
   exceeds the number of crawled keys outside the snapshot. *)
C13_MountBestEffort ==
    /\ [](pc = "mount" => /\ variant = "local"
                          /\ optMount
                          /\ key \notin SeqToSet(indexMounts)
                          /\ key \in crawlSet)
    /\ [][(pc # "mount" /\ pc' = "mount") =>
              /\ Dequeue
              /\ key' \notin crawlSet]_vars
    /\ [][(pc = "mount") => /\ pc' = "drive"
                            /\ key' = key
                            /\ queue' = queue
                            /\ crawlSet' = crawlSet
                            /\ mounted' \in {mounted, mounted + 1}]_vars
    /\ [][(pc # "mount") => mounted' = mounted]_vars
    /\ [](mounted <= Cardinality(crawlSet \ SeqToSet(indexMounts)))
    /\ [](~optMount => mounted = 0)

\* in mount mode the mount of the seed threw, and its drive has been
\* acquired and listed and is being scraped
C13_Witness ==
    /\ variant = "local"
    /\ optMount
    /\ indexMounts = <<>>
    /\ pc = "scrape"
    /\ key = K(1)
    /\ crawlSet = {K(1)}
    /\ mounted = 0
    /\ ti = 2


\* a step of the loop of exhaustInput
SeedStep == pc = "input" /\ argv # <<>>

(* C14: in the daemon variant a seed that is the address hyper://<key> of a
   key, or the bare key, has its key pending after its step of exhaustInput,
   and the keys pending stay pending until exhaustQueue starts. *)
C14_DriveSeedsQueued ==
    /\ [][SeedStep => \A k \in Keys :
                          Head(argv) \in {Uri(k), k} =>
                              k \in SeqToSet(queue')]_vars
    /\ [][(pc = "input") => \A q \in {queue'} : IsPrefix(queue, q)]_vars


(* C14, as the code has it: a seed hyper://<key> has its key pending after
   its step of exhaustInput; a seed that begins neither with http:, https:
   nor hyper:, a bare key among them, is skipped and queues nothing; and the
   keys pending stay pending until exhaustQueue starts. *)
C14_SchemeSeedsQueued ==
    /\ [][SeedStep => \A k \in Keys :
                          Head(argv) = Uri(k) => k \in SeqToSet(queue')]_vars
    /\ [][(SeedStep /\ Head(argv) \in Keys) =>
              queue' = queue /\ found' = found]_vars
    /\ [][(pc = "input") => \A q \in {queue'} : IsPrefix(queue, q)]_vars

\* the seed hyper://<K1> has been queued and the bare key is the next seed
C14_Witness ==
    /\ variant = "daemon"
    /\ pc = "input"
    /\ queue = <<K(1)>>
    /\ argv = <<K(NumKeys)>>


\* a step of exhaustInput on an HTTP(S) seed
HttpSeedStep == SeedStep /\ HTTP_SCHEME(Head(argv))

\* C15: in the daemon variant each HTTP(S) seed is consumed by exactly one
\* step of exhaustInput, which fetches it once; the frontier holds keys only,
\* never the seed; the keys scraped from the body are pending after the step;
\* a failed fetch changes nothing but the position in the seed list: keys
\* queued before stay queued, the next seed is taken, and the only way out of
\* the seed loop is into the drain loop after the last seed
C15_HttpSeedOnceAndLocal ==
    /\ [](\A i \in 1..Len(queue) : queue[i] \in Keys)
    /\ [][HttpSeedStep =>
            /\ argv' = Tail(argv)
            /\ pc' = "input"
            /\ crawlSet' = crawlSet
            /\ \A q \in {queue'} :
                   /\ IsPrefix(queue, q)
                   /\ (found' \ found) \subseteq SeqToSet(q)
                   /\ SeqToSet(q) \ SeqToSet(queue) \subseteq found'
                   /\ found' = found => q = queue]_vars
    /\ [][(argv' # argv) => SeedStep /\ argv' = Tail(argv)]_vars
    /\ [][(pc = "input" /\ pc' # "input") => argv = <<>> /\ pc' = "loop"]_vars
    /\ [](pc = "input" => ENABLED (ExhaustInput \/ ExhaustInputEnd))

\* the seed hyper://aa..a was queued, then the body of the HTTP(S) seed gave
\* bb..b, and the drain loop is about to start
C15_Witness ==
    /\ variant = "daemon"
    /\ pc = "loop"
    /\ argv = <<>>
    /\ crawlSet = {}
    /\ queue = <<K(1), K(2)>>
    /\ found = {K(2)}


\* the candidate the claim describes: after hyper:// the next 64 characters,
\* otherwise the first 64 characters
MarkerCandidate(uri) ==
    IF StartsWith(uri, HyperMarker) THEN Slice(uri, 8, 72)
    ELSE Slice(uri, 0, 64)

(* C16: extractKey in both variants returns the candidate if it is exactly 64
   characters of 0-9a-f and null otherwise, where the candidate of a
   reference starting with hyper:// is the 64 characters after the marker and
   the candidate of every other reference, one starting with hyper: without
   // included, is its first 64 characters. *)
C16_ExtractKeyCandidate ==
    pc = "extracted" =>
        \E cand \in {MarkerCandidate(argv[1])} :
            key = IF Len(cand) = KeyLen /\ HexKeyAt(cand, 1) THEN cand ELSE Null


\* the extensions the changelog of 0.1.0 lists
ListedExts ==
    { <<"h", "t", "m">>, <<"h", "t", "m", "l">>, <<"m", "d">>,
      <<"m", "a", "r", "k", "d", "o", "w", "n">>, <<"x", "m", "l">>,
      <<"j", "s", "o", "n">>, <<"j", "s">>, <<"c", "s", "s">> }

HasListedExt(entry) == \E e \in ListedExts : EndsWith(entry, <<".">> \o e)

(* C17: filterScrapable of index.js keeps every entry its exclusion test
   passes whose extension is one of .htm, .html, .md, .markdown, .xml, .json,
   .js, .css, and keeps no entry of another extension. *)
C17_MarkdownScraped ==
    pc = "filtered" =>
        \A i \in 1..Len(entries) :
            (entries[i] \in SeqToSet(targets))
                <=> (HasListedExt(entries[i]) /\ ~ExcludedMatch(entries[i]))


\* the positions of text where hyper:// and 64 characters of 0-9a-f stand
Occurrences(text) == {i \in 1..Len(text) : AddressAt(text, i)}

(* C18: scrapeHyperAddresses and scrapeURIs return one reference for each
   occurrence of hyper:// followed by 64 characters of 0-9a-f, in the order
   of the occurrences from the left, repeated addresses kept: the j-th
   element is the 72 characters of the j-th occurrence; occurrences never
   overlap; the result is empty when there is none, and hyper:// followed by
   fewer than 64 such characters gives nothing. *)
C18_ScrapeAllInOrder ==
    pc = "matched" =>
        \E text \in {argv[1]} :
            \E occ \in {Occurrences(text)} :
                /\ Len(args) = Cardinality(occ)
                /\ \A i, j \in occ : i < j => i + Len(HyperMarker) + KeyLen <= j
                /\ \A i \in occ :
                       \E n \in {Cardinality({j \in occ : j < i}) + 1} :
                           args[n] = SubSeq(text, i,
                                            i + Len(HyperMarker) + KeyLen - 1)

\* in bb..b, the example, bb..b the three addresses were found in order, the
\* repeated one twice, and hyper://short gave nothing
C18_Witness ==
    /\ pc = "matched"
    /\ argv = <<Uri(K(2)) \o Example \o Uri(K(2))>>
    /\ args = <<Uri(K(2)), Uri(K(1)), Uri(K(2))>>


\* the files the loop over the listing reads: targets in index.js, the
\* filtered entries in part_000
ToRead == IF variant = "local" THEN targets ELSE entries

(* C19: in both variants one key is processed at a time. The current key
   changes only by a dequeue, and a dequeue finds no drive open and no
   listing left; the drive is acquired once for the current key and given up
   only when the loop is re-entered; each step makes at most one accessor
   call, reads and stats advancing one entry at a time on the same drive
   and key; the read loop is left only after the last file, the stat loop
   only after the last entry, and the loop is re-entered only then or after
   the acquisition or the listing of the current key failed. *)
C19_OneKeyAtATime ==
    /\ [][(key' # key) => Dequeue]_vars
    /\ [][Dequeue => cur = NoDrive /\ entries = <<>> /\ targets = <<>>]_vars
    /\ [][(cur' # cur) =>
            \/ pc \in {"drive", "get"} /\ cur = NoDrive /\ key' = key
            \/ cur' = NoDrive /\ pc' = "loop"]_vars
    /\ [][(pc \in {"scrape", "entries"} /\ pc' = pc) =>
            /\ ti <= Len(ToRead)
            /\ ti' = ti + 1
            /\ si' = si
            /\ <<key, cur, entries, targets>>' = <<key, cur, entries, targets>>]_vars
    /\ [][(pc \in {"scrape", "entries"} /\ pc' # pc) => ti > Len(ToRead)]_vars
    /\ [][(pc = "stat" /\ pc' = pc) =>
            /\ si <= Len(entries)
            /\ si' = si + 1
            /\ ti' = ti
            /\ <<key, cur, entries, targets>>' = <<key, cur, entries, targets>>]_vars
    /\ [][(pc = "stat" /\ pc' # pc) => si > Len(entries) /\ pc' = "loop"]_vars
    /\ [][(pc' = "loop" /\ pc \notin {"loop", "add_cwd", "input"}) =>
            \/ pc \in {"drive", "readdir"} /\ key \in failed'
            \/ pc = "stat" /\ si > Len(entries)
            \/ pc = "finally" /\ key \in failed
            \/ pc = "entries" /\ ti > Len(entries)]_vars

\* the last of four entries of the drive of aa..a is about to be stat-ed,
\* both targets have been read, and the key they gave is still pending
C19_Witness ==
    /\ variant = "local"
    /\ pc = "stat"
    /\ key = K(1)
    /\ cur = MixedDrive({K(2), K(3)})
    /\ si = Len(entries)
    /\ ti = Len(targets) + 1
    /\ Len(targets) = 2
    /\ queue = <<K(2)>>
    /\ crawlSet = {K(1)}


(* C20: frame of the CrawlQueue of index.js within a run of pleco. A step
   that is no drain step (the add calls among them) leaves the crawled set
   alone, keeps the pending keys as a prefix of the new pending list and
   appends only keys that are neither crawled nor pending; a drain step
   removes the last pending key and nothing else, puts that key, which was
   not crawled before, into the crawled set, whose size grows by one, and
   leaves everything outside the queue but the position and the current key
   alone; so the crawled set never shrinks, holds every key whose drive
   failed, and when the report is made the queue is empty and the number
   reported, the size of the crawled set, is the number of drain steps. *)
C20_QueueFrame ==
    /\ [][(variant = "local" /\ ~Dequeue) =>
            /\ crawlSet' = crawlSet
            /\ \A q \in {queue'} :
                   /\ IsPrefix(queue, q)
                   /\ NoDuplicates(q)
                   /\ \A i \in (Len(queue) + 1)..Len(q) : q[i] \notin crawlSet]_vars
    /\ [][(variant = "local" /\ Dequeue) =>
            /\ queue' = SubSeq(queue, 1, Len(queue) - 1)
            /\ crawlSet' = crawlSet \cup {queue[Len(queue)]}
            /\ queue[Len(queue)] \notin crawlSet
            /\ Cardinality(crawlSet') = Cardinality(crawlSet) + 1
            /\ UNCHANGED <<locals, mounted, found, failed>>]_vars
    /\ [](variant = "local" => failed \subseteq crawlSet)
    /\ [](variant = "local" /\ pc \in {"report", "done"} => queue = <<>>)

\* the report is made after two drain steps: the drive of aa..a gave bb..b,
\* whose drive failed, and both are counted
C20_Witness ==
    /\ variant = "local"
    /\ pc = "done"
    /\ queue = <<>>
    /\ crawlSet = {K(1), K(2)}
    /\ failed = {K(2)}
    /\ found = {K(2)}

=============================================================================
